---- MODULE Spec2Model ----
(***************************************************************************)
(* dtn7 core (src/core/mod.rs): the peer registry PEERS with its liveness  *)
(* sweep process_peers, the address resolution helpers peers_get_for_node  *)
(* and peers_cla_for_node, and the node core DtnCore with its endpoint     *)
(* collection.                                                             *)
(***************************************************************************)
EXTENDS Integers, Sequences, FiniteSets, TLC

\* ---------------------------------------------------------------- bounds
\* largest clock reading (seconds since the epoch)
MaxTime == 2
\* largest configured CONFIG.peer_timeout
MaxTimeout == 1
\* modulus standing for 2^64, the width of last_contact and of the clock
WordMod == 16
\* largest number of endpoints DtnCore holds
MaxEndpoints == 3

\* ---------------------------------------------------------------- values
\* Option<T>: None and Some(x)
None == <<>>
Some(x) == <<x>>

\* bp7::EndpointID: a node part and a service part; dtn:none has no node part
DtnNone == [node |-> None, svc |-> ""]
Eid(n, s) == [node |-> Some(n), svc |-> s]

\* EndpointID::node_part(): Option<String>
node_part(e) == e.node

\* Option<String>::unwrap_or_default(): the empty string for None
unwrap_or_default(o) == IF o = None THEN "" ELSE o[1]

\* EndpointID's Display (to_string): the URI text, as its sequence of parts
to_string(e) ==
  IF e.node = None THEN <<"dtn:none">> ELSE <<"dtn://", e.node[1], "/", e.svc>>

\* the peers that discovery and configuration hand to the registry:
\* (eid, addr, con_type, cla_list); a binding is <<name, Option<u16>>>
PeerInputs ==
  { [eid |-> Eid("n1", "a"), addr |-> "10.0.0.1", con_type |-> "Dynamic",
     cla_list |-> << <<"http", None>>, <<"udp", Some(4556)>>, <<"tcp", None>> >>],
    [eid |-> Eid("n1", "b"), addr |-> "10.0.0.3", con_type |-> "Static",
     cla_list |-> << <<"tcp", None>>, <<"udp", Some(4556)>> >>],
    [eid |-> Eid("n2", "a"), addr |-> "10.0.0.2", con_type |-> "Dynamic",
     cla_list |-> << <<"http", None>> >>],
    [eid |-> Eid("n2", "a"), addr |-> "10.0.0.2", con_type |-> "Static",
     cla_list |-> << >>] }

\* the endpoint identifiers callers ask about
Queries == {Eid("n1", "a"), Eid("n2", "a"), DtnNone}

\* the transport names active on this node; "http" is a name peers may advertise
\* that is not among them
ActiveClas == {"tcp", "udp"}

\* the two tasks of the model: the periodic sweep and a caller of the registry
NoTask == "none"

VARIABLES
  now,              \* SystemTime::now() in seconds since the epoch
  overflow_checks,  \* whether the build panics on integer overflow
  peer_timeout,     \* CONFIG.peer_timeout
  configLock,       \* holder of the CONFIG mutex
  peers,            \* PEERS: the map from node name to DtnPeer
  peersLock,        \* holder of the PEERS mutex
  peersPoisoned,    \* PEERS was poisoned by a panic under its guard
  cla_active,       \* the transport names convergency_layer_agents() reports
  s_pc,             \* process_peers: position of the sweep task
  s_todo,           \* process_peers: keys retain has not visited yet
  s_cur,            \* process_peers: key whose still_valid() is being computed
  s_now,            \* still_valid: the clock value it read
  s_lc,             \* still_valid: the last_contact it read
  pre,              \* history: the registry when the sweep took the lock
  stable,           \* history: clock and timeout unchanged since the sweep began
  lastEvict,        \* history: the last removal made by the running sweep
  gone,             \* history: keys a completed sweep saw expired, not re-added
  swept,            \* history: timeout of the last sweep, while nothing else changed
  w_pc,             \* caller task: position
  w_op,             \* caller task: operation in progress
  w_q,              \* caller task: the endpoint identifier asked about
  w_snap,           \* peers_cla_for_node: the peer cloned by peers_get_for_node
  w_res,            \* caller task: returned value
  w_gone,           \* history: gone[node of w_q] when the call started
  endpoints,        \* DtnCore.endpoints
  cl_list,          \* DtnCore.cl_list
  routing_agent,    \* DtnCore.routing_agent
  core_last,        \* history: the last DtnCore call
  core_prev,        \* history: the DtnCore call before it
  ever_reg,         \* history: identifiers ever registered
  core_q            \* history: the last lookup among the endpoints

regVars ==
  <<now, overflow_checks, peer_timeout, configLock, peers, peersLock,
    peersPoisoned, cla_active, s_pc, s_todo, s_cur, s_now, s_lc, pre, stable,
    lastEvict, gone, swept, w_pc, w_op, w_q, w_snap, w_res, w_gone>>

coreVars ==
  <<endpoints, cl_list, routing_agent, core_last, core_prev, ever_reg, core_q>>

vars == <<regVars, coreVars>>


\* ------------------------------------------------------- DtnPeer (pure parts)
\* DtnPeer::new: last_contact is the clock value at creation
DtnPeer_new(inp, n) ==
  [eid |-> inp.eid, addr |-> inp.addr, con_type |-> inp.con_type,
   cla_list |-> inp.cla_list, last_contact |-> n]

\* mutant: touch leaves last_contact as it was
touch_stale(p, n) == p

\* DtnPeer::touch: last_contact becomes the clock value read
touch(p, n) == [p EXCEPT !.last_contact = n]

\* u64 subtraction a - b in a build that wraps
wrapping_sub(a, b) == (a - b + WordMod) % WordMod

\* the comparison of still_valid: elapsed < peer_timeout
timeout_cmp(elapsed, t) == elapsed < t

\* now - last_contact panics: it overflows in a build with overflow checks
sub_panics(n, lc, oc) == n < lc /\ oc

\* now - last_contact < peer_timeout, the subtraction done
elapsed_valid(n, lc, t) == timeout_cmp(wrapping_sub(n, lc), t)

\* DtnPeer::still_valid as a function of the clock value n, the timeout t and the
\* build: "panic" when now - last_contact overflows under overflow checks
still_valid(p, n, t, oc) ==
  IF sub_panics(n, p.last_contact, oc) THEN "panic"
  ELSE IF elapsed_valid(n, p.last_contact, t) THEN "true" ELSE "false"

\* DtnPeer::get_node_name
get_node_name(p) == unwrap_or_default(node_part(p.eid))

\* mutant: the closure of retain does not look at the peer type
keep_unchecked_never(p) == FALSE

\* the left operand of retain's closure: a Static peer is kept without a check
keep_unchecked(p) == p.con_type = "Static"

\* crate::cla::ClaSender built by get_first_cla for binding c
ClaSender(p, c) == [remote |-> p.addr, port |-> c[2], agent |-> c[1]]

\* mutant: get_first_cla takes the first binding, active or not
cla_matches_any(c, active) == TRUE

\* whether get_first_cla takes binding c: its name is among the active transports
cla_matches(c, active) == c[1] \in active

RECURSIVE first_cla_from(_, _, _)
\* the loop of get_first_cla from index i on
first_cla_from(p, i, active) ==
  IF i > Len(p.cla_list) THEN None
  ELSE IF cla_matches(p.cla_list[i], active) THEN Some(ClaSender(p, p.cla_list[i]))
  ELSE first_cla_from(p, i + 1, active)

\* DtnPeer::get_first_cla
get_first_cla(p, active) == first_cla_from(p, 1, active)

\* mutant: peers_get_for_node compares the full endpoint identifiers
node_matches_full(p, q) == p.eid = q

\* the test of peers_get_for_node on one stored peer
node_matches(p, q) == get_node_name(p) = unwrap_or_default(node_part(q))

\* what peers_get_for_node may return on registry reg: a clone of the first
\* matching peer in the map's iteration order, or None
lookup_results(reg, q) ==
  IF \E k \in DOMAIN reg : node_matches(reg[k], q)
  THEN {Some(reg[k]) : k \in {x \in DOMAIN reg : node_matches(reg[x], q)}}
  ELSE {None}

\* mutant: the caller keeps no copy and reads the registry entry again
live_peer(snap, reg, q) ==
  IF unwrap_or_default(node_part(q)) \in DOMAIN reg
  THEN Some(reg[unwrap_or_default(node_part(q))])
  ELSE None

\* the Option<DtnPeer> peers_cla_for_node holds: the clone made by
\* peers_get_for_node, whatever the registry reg holds by now
cloned_peer(snap, reg, q) == snap

\* mutant: the map is cleared where one entry should go
map_remove_all(m, k) == [x \in {} |-> m[x]]

\* mutant: retain drops nothing
map_remove_noop(m, k) == m

\* the map with key k removed (retain dropping an entry)
map_remove(m, k) == [x \in DOMAIN m \ {k} |-> m[x]]

\* HashMap::insert
map_insert(m, k, v) == [x \in DOMAIN m \cup {k} |-> IF x = k THEN v ELSE m[x]]

EmptyMap == [x \in {} |-> None]

\* mutant: retain stops after the first entry it visits
retain_rest_stop(todo, k) == {}

\* HashMap::retain goes on with the entries it has not visited
retain_rest(todo, k) == todo \ {k}

\* mutant: still_valid compares with a fixed timeout, not the configured one
config_peer_timeout_fixed == MaxTimeout

\* CONFIG.lock().unwrap().peer_timeout, read when still_valid is called
config_peer_timeout == peer_timeout

Keys == {get_node_name(DtnPeer_new(i, 0)) : i \in PeerInputs}

\* mutant: the registry is reached without waiting for its lock
peers_lock_ignored == TRUE

\* Mutex::lock on PEERS can proceed
peers_lock_free == peersLock = NoTask

\* Mutex::lock on CONFIG can proceed
config_lock_free == configLock = NoTask

\* ---------------------------------------------------------------- Init
InitCore ==
  /\ endpoints = <<>>
  /\ cl_list = <<>>
  /\ routing_agent = "epidemic"
  /\ core_last = None
  /\ core_prev = None
  /\ ever_reg = {}
  /\ core_q = None

Init ==
  /\ now = 0
  /\ overflow_checks \in BOOLEAN
  /\ peer_timeout \in 0..MaxTimeout
  /\ configLock = NoTask
  /\ peers = EmptyMap
  /\ peersLock = NoTask
  /\ peersPoisoned = FALSE
  /\ cla_active = ActiveClas
  /\ s_pc = "idle"
  /\ s_todo = {}
  /\ s_cur = ""
  /\ s_now = 0
  /\ s_lc = 0
  /\ pre = EmptyMap
  /\ stable = TRUE
  /\ lastEvict = None
  /\ gone = [k \in Keys |-> FALSE]
  /\ swept = None
  /\ w_pc = "idle"
  /\ w_op = ""
  /\ w_q = DtnNone
  /\ w_snap = None
  /\ w_res = None
  /\ w_gone = FALSE
  /\ InitCore

sweepVars == <<s_pc, s_todo, s_cur, s_now, s_lc, pre, lastEvict>>
callerVars == <<w_pc, w_op, w_q, w_snap, w_res, w_gone>>
lockVars == <<configLock, peersLock, peersPoisoned>>
buildVars == <<overflow_checks, cla_active>>

\* ---------------------------------------------------------------- clock, config
\* the wall clock advances by a second
Tick ==
  /\ now < MaxTime
  /\ now' = now + 1
  /\ stable' = (s_pc = "idle")
  /\ swept' = None
  /\ UNCHANGED <<peer_timeout, peers, gone, sweepVars, callerVars, lockVars,
                 buildVars, coreVars>>

\* the wall clock is set back by a second (SystemTime is not monotonic)
ClockBack ==
  /\ now > 0
  /\ now' = now - 1
  /\ stable' = (s_pc = "idle")
  /\ swept' = None
  /\ UNCHANGED <<peer_timeout, peers, gone, sweepVars, callerVars, lockVars,
                 buildVars, coreVars>>

\* CONFIG.lock().unwrap().peer_timeout = t
SetTimeout(t) ==
  /\ config_lock_free
  /\ t # peer_timeout
  /\ peer_timeout' = t
  /\ stable' = (s_pc = "idle")
  /\ UNCHANGED <<now, peers, gone, swept, sweepVars, callerVars, lockVars,
                 buildVars, coreVars>>


\* ---------------------------------------------------------------- process_peers
\* PEERS.lock().unwrap() of process_peers; retain starts on the locked map
SweepBegin ==
  /\ s_pc = "idle"
  /\ peers_lock_free
  /\ ~peersPoisoned
  /\ peersLock' = "sweep"
  /\ s_pc' = "iter"
  /\ s_todo' = DOMAIN peers
  /\ pre' = peers
  /\ stable' = TRUE
  /\ lastEvict' = None
  /\ UNCHANGED <<now, peer_timeout, peers, gone, swept, s_cur, s_now, s_lc,
                 configLock, peersPoisoned, callerVars, buildVars, coreVars>>

\* PEERS.lock().unwrap() on a poisoned mutex: the unwrap panics
SweepPoisoned ==
  /\ s_pc = "idle"
  /\ peers_lock_free
  /\ peersPoisoned
  /\ s_pc' = "panicked"
  /\ UNCHANGED <<now, peer_timeout, peers, gone, swept, stable, s_todo, s_cur, s_now, s_lc,
                 pre, lastEvict, lockVars, callerVars, buildVars, coreVars>>

\* retain's closure on entry k, a Static peer: || short-circuits, the entry stays
SweepKeepStatic(k) ==
  /\ s_pc = "iter"
  /\ k \in s_todo
  /\ keep_unchecked(peers[k])
  /\ s_todo' = retain_rest(s_todo, k)
  /\ UNCHANGED <<now, peer_timeout, peers, gone, swept, stable, s_pc, s_cur, s_now, s_lc,
                 pre, lastEvict, lockVars, callerVars, buildVars, coreVars>>

\* retain's closure on entry k, not Static: still_valid reads the clock and
\* computes now - last_contact, before it locks CONFIG
SweepCheck(k) ==
  /\ s_pc = "iter"
  /\ k \in s_todo
  /\ ~keep_unchecked(peers[k])
  /\ ~sub_panics(now, peers[k].last_contact, overflow_checks)
  /\ s_pc' = "cfg_wait"
  /\ s_cur' = k
  /\ s_now' = now
  /\ s_lc' = peers[k].last_contact
  /\ UNCHANGED <<now, peer_timeout, peers, gone, swept, stable, s_todo, pre, lastEvict,
                 lockVars, callerVars, buildVars, coreVars>>

\* the subtraction of still_valid overflows in a build with overflow checks:
\* the panic unwinds out of retain, the guard is dropped and PEERS is poisoned
SweepPanic(k) ==
  /\ s_pc = "iter"
  /\ k \in s_todo
  /\ ~keep_unchecked(peers[k])
  /\ sub_panics(now, peers[k].last_contact, overflow_checks)
  /\ s_pc' = "panicked"
  /\ s_todo' = {}
  /\ pre' = EmptyMap
  /\ lastEvict' = None
  /\ peersLock' = NoTask
  /\ peersPoisoned' = TRUE
  /\ stable' = TRUE
  /\ swept' = None
  /\ UNCHANGED <<now, peer_timeout, peers, gone, s_cur, s_now, s_lc, configLock,
                 callerVars, buildVars, coreVars>>

\* still_valid: CONFIG.lock().unwrap(), taken while PEERS is held
SweepCfgLock ==
  /\ s_pc = "cfg_wait"
  /\ config_lock_free
  /\ configLock' = "sweep"
  /\ s_pc' = "cfg_held"
  /\ UNCHANGED <<now, peer_timeout, peers, gone, swept, stable, s_todo, s_cur, s_now, s_lc,
                 pre, lastEvict, peersLock, peersPoisoned, callerVars, buildVars,
                 coreVars>>

\* still_valid reads peer_timeout, compares and drops the CONFIG guard; retain
\* keeps the entry when the closure is true and removes it otherwise
SweepCfgRead ==
  /\ s_pc = "cfg_held"
  /\ configLock' = NoTask
  /\ s_pc' = "iter"
  /\ s_todo' = retain_rest(s_todo, s_cur)
  /\ IF elapsed_valid(s_now, s_lc, config_peer_timeout)
     THEN UNCHANGED <<peers, lastEvict>>
     ELSE /\ peers' = map_remove(peers, s_cur)
          /\ lastEvict' = Some([key |-> s_cur, lc |-> peers[s_cur].last_contact,
                                now |-> s_now, timeout |-> config_peer_timeout])
  /\ s_cur' = ""
  /\ s_now' = 0
  /\ s_lc' = 0
  /\ UNCHANGED <<now, peer_timeout, gone, swept, stable, pre, peersLock, peersPoisoned,
                 callerVars, buildVars, coreVars>>

\* retain has visited every entry: the guard is dropped, process_peers returns
SweepEnd ==
  /\ s_pc = "iter"
  /\ s_todo = {}
  /\ peersLock' = NoTask
  /\ s_pc' = "idle"
  /\ pre' = EmptyMap
  /\ lastEvict' = None
  /\ gone' = [k \in Keys |->
                gone[k] \/ ( /\ stable
                             /\ k \in DOMAIN pre
                             /\ pre[k].con_type = "Dynamic"
                             /\ now > pre[k].last_contact + peer_timeout )]
  /\ swept' = IF stable THEN Some(peer_timeout) ELSE None
  /\ stable' = TRUE
  /\ UNCHANGED <<now, peer_timeout, peers, s_todo, s_cur, s_now, s_lc, configLock,
                 peersPoisoned, callerVars, buildVars, coreVars>>

\* the housekeeping timer starts the sweep task again after a panic
SweepRestart ==
  /\ s_pc = "panicked"
  /\ s_pc' = "idle"
  /\ UNCHANGED <<now, peer_timeout, peers, gone, swept, stable, s_todo, s_cur, s_now, s_lc,
                 pre, lastEvict, lockVars, callerVars, buildVars, coreVars>>


\* ---------------------------------------------------------------- registry callers
envVars == <<now, peer_timeout, stable>>

\* create/update peer: DtnPeer::new(...) inserted under its node name, replacing
\* any record of that node
PeersAdd(inp) ==
  /\ w_pc = "idle"
  /\ peers_lock_free
  /\ ~peersPoisoned
  /\ LET p == DtnPeer_new(inp, now)
     IN /\ peers' = map_insert(peers, get_node_name(p), p)
        /\ gone' = [gone EXCEPT ![get_node_name(p)] = FALSE]
  /\ swept' = None
  /\ UNCHANGED <<envVars, sweepVars, callerVars, lockVars, buildVars, coreVars>>

\* PEERS.lock().unwrap().get_mut(k).touch(): touch(&mut self) on a registry entry
\* needs the guard of PEERS
Touch(k) ==
  /\ w_pc = "idle"
  /\ peers_lock_free
  /\ ~peersPoisoned
  /\ k \in DOMAIN peers
  /\ peers' = [peers EXCEPT ![k] = touch(@, now)]
  /\ w_pc' = "done"
  /\ w_op' = "touch"
  /\ w_q' = peers[k].eid
  /\ swept' = None
  /\ UNCHANGED <<envVars, gone, sweepVars, w_snap, w_res, w_gone, lockVars,
                 buildVars, coreVars>>

\* peers_cla_for_node(q), first half: peers_get_for_node(q) scans the map under
\* the guard of PEERS and returns a clone of the first match
ResolveLookup(q) ==
  /\ w_pc = "idle"
  /\ peers_lock_free
  /\ ~peersPoisoned
  /\ w_snap' \in lookup_results(peers, q)
  /\ w_pc' = "match"
  /\ w_op' = "resolve"
  /\ w_q' = q
  /\ w_gone' = ( /\ unwrap_or_default(node_part(q)) \in Keys
                 /\ gone[unwrap_or_default(node_part(q))] )
  /\ UNCHANGED <<envVars, peers, gone, swept, sweepVars, w_res, lockVars, buildVars,
                 coreVars>>

\* peers_cla_for_node(q), second half: get_first_cla on the clone, PEERS released
ResolveMatch ==
  /\ w_pc = "match"
  /\ LET peer == cloned_peer(w_snap, peers, w_q)
     IN w_res' = IF peer = None THEN None ELSE get_first_cla(peer[1], cla_active)
  /\ w_pc' = "done"
  /\ UNCHANGED <<envVars, peers, gone, swept, sweepVars, w_op, w_q, w_snap, w_gone,
                 lockVars, buildVars, coreVars>>

\* PEERS.lock().unwrap() of any caller on a poisoned mutex: the unwrap panics
CallerPoisoned ==
  /\ w_pc = "idle"
  /\ peers_lock_free
  /\ peersPoisoned
  /\ w_pc' = "panicked"
  /\ UNCHANGED <<envVars, peers, gone, swept, sweepVars, w_op, w_q, w_snap, w_res, w_gone,
                 lockVars, buildVars, coreVars>>

\* the call is over: its locals are dropped
CallerReturn ==
  /\ w_pc \in {"done", "panicked"}
  /\ w_pc' = "idle"
  /\ w_op' = ""
  /\ w_q' = DtnNone
  /\ w_snap' = None
  /\ w_res' = None
  /\ w_gone' = FALSE
  /\ UNCHANGED <<envVars, peers, gone, swept, sweepVars, lockVars, buildVars, coreVars>>

\* ---------------------------------------------------------------- specification
Next ==
  \/ Tick
  \/ ClockBack
  \/ \E t \in 0..MaxTimeout : SetTimeout(t)
  \/ SweepBegin
  \/ SweepPoisoned
  \/ \E k \in Keys : SweepKeepStatic(k)
  \/ \E k \in Keys : SweepCheck(k)
  \/ \E k \in Keys : SweepPanic(k)
  \/ SweepCfgLock
  \/ SweepCfgRead
  \/ SweepEnd
  \/ SweepRestart
  \/ \E inp \in PeerInputs : PeersAdd(inp)
  \/ \E k \in Keys : Touch(k)
  \/ \E q \in Queries : ResolveLookup(q)
  \/ ResolveMatch
  \/ CallerPoisoned
  \/ CallerReturn

Spec == Init /\ [][Next]_vars


\* ---------------------------------------------------------------- DtnCore
\* the application agents callers hand to the core: an agent has its endpoint
\* identifier and its own state (inst)
Agents == [eid : {Eid("n0", "in"), Eid("n0", "out")}, inst : {1, 2}]

\* ApplicationAgent::eid
agent_eid(aa) == aa.eid

\* mutant: the predicate of position does not compare the identifier
position_any(eps, e, i) == IF i > Len(eps) THEN None ELSE Some(i)

RECURSIVE position_last(_, _, _)
\* mutant: the index of the last stored endpoint with identifier e, not the first
position_last(eps, e, i) ==
  IF i > Len(eps) THEN None
  ELSE LET later == position_last(eps, e, i + 1)
       IN IF later # None THEN later
          ELSE IF agent_eid(eps[i]) = e THEN Some(i) ELSE None

RECURSIVE position_from(_, _, _)
\* Iterator::position(|n| n.eid() == e) from index i on: Some(index) or None
position_from(eps, e, i) ==
  IF i > Len(eps) THEN None
  ELSE IF agent_eid(eps[i]) = e THEN Some(i)
  ELSE position_from(eps, e, i + 1)

\* Vec::remove(i)
vec_remove(v, i) == [j \in 1..(Len(v) - 1) |-> IF j < i THEN v[j] ELSE v[j + 1]]

\* DtnCore::eids
eids(eps) == [i \in 1..Len(eps) |-> to_string(agent_eid(eps[i]))]

\* the endpoints after DtnCore::unregister_application_agent(aa)
unregistered(eps, aa) ==
  LET pos == position_from(eps, agent_eid(aa), 1)
  IN IF pos = None THEN eps ELSE vec_remove(eps, pos[1])

\* mutant: the scan starts behind the first stored endpoint
has_eid_skip_first(eps, e) == \E i \in 2..Len(eps) : agent_eid(eps[i]) = e

\* DtnCore::is_in_endpoints(e): whether some stored endpoint has identifier e
has_eid(eps, e) == \E i \in 1..Len(eps) : agent_eid(eps[i]) = e

\* DtnCore::register_application_agent(aa)
RegisterApplicationAgent(aa) ==
  /\ Len(endpoints) < MaxEndpoints
  /\ endpoints' = Append(endpoints, aa)
  /\ core_prev' = core_last
  /\ core_last' = Some([op |-> "register", eid |-> agent_eid(aa),
                        fresh |-> ~has_eid(endpoints, agent_eid(aa)),
                        before |-> endpoints])
  /\ ever_reg' = ever_reg \cup {agent_eid(aa)}
  /\ core_q' = None
  /\ UNCHANGED <<cl_list, routing_agent, regVars>>

\* DtnCore::unregister_application_agent(aa)
UnregisterApplicationAgent(aa) ==
  /\ endpoints' = unregistered(endpoints, aa)
  /\ core_prev' = core_last
  /\ core_last' = Some([op |-> "unregister", eid |-> agent_eid(aa),
                        fresh |-> ~has_eid(endpoints, agent_eid(aa)),
                        before |-> endpoints])
  /\ core_q' = None
  /\ UNCHANGED <<ever_reg, cl_list, routing_agent, regVars>>

\* the endpoint identifiers callers look up among the endpoints
CoreQueries == {Eid("n0", "in"), Eid("n0", "out"), Eid("n0", "ping")}

RECURSIVE get_endpoint_from(_, _, _)
\* the loop of DtnCore::get_endpoint from index i on
get_endpoint_from(eps, e, i) ==
  IF i > Len(eps) THEN None
  ELSE IF e = agent_eid(eps[i]) THEN Some(eps[i])
  ELSE get_endpoint_from(eps, e, i + 1)

\* DtnCore::get_endpoint(e)
get_endpoint(eps, e) == get_endpoint_from(eps, e, 1)

\* mutant: get_endpoint_mut compares the node part of the identifiers only
get_endpoint_mut_node(eps, e) ==
  LET M == {i \in 1..Len(eps) : node_part(agent_eid(eps[i])) = node_part(e)}
  IN IF M = {} THEN None
     ELSE Some(eps[CHOOSE i \in M : \A j \in M : i <= j])

RECURSIVE get_endpoint_mut_from(_, _, _)
\* the loop of DtnCore::get_endpoint_mut from index i on
get_endpoint_mut_from(eps, e, i) ==
  IF i > Len(eps) THEN None
  ELSE IF e = agent_eid(eps[i]) THEN Some(eps[i])
  ELSE get_endpoint_mut_from(eps, e, i + 1)

\* DtnCore::get_endpoint_mut(e)
get_endpoint_mut(eps, e) == get_endpoint_mut_from(eps, e, 1)

\* a caller asks is_in_endpoints(e), get_endpoint(e) and get_endpoint_mut(e)
\* of the same collection
GetEndpoint(e) ==
  /\ core_q' = Some([eid |-> e,
                     found |-> has_eid(endpoints, e),
                     got |-> get_endpoint(endpoints, e),
                     got_mut |-> get_endpoint_mut(endpoints, e)])
  /\ UNCHANGED <<endpoints, cl_list, routing_agent, core_last, core_prev,
                 ever_reg, regVars>>

NextCore ==
  \/ \E aa \in Agents : RegisterApplicationAgent(aa)
  \/ \E aa \in Agents : UnregisterApplicationAgent(aa)
  \/ \E e \in CoreQueries : GetEndpoint(e)

SpecCore == Init /\ [][NextCore]_vars


\* ================================================================ properties
\* retain has visited every entry and process_peers still holds the guard
SweepDone == s_pc = "iter" /\ s_todo = {}

\* the node name an endpoint identifier is looked up by
QueryNode(q) == unwrap_or_default(node_part(q))

\* the step in which the caller's touch of registry entry k takes effect
TouchStep(k) ==
  /\ w_pc = "idle"
  /\ w_pc' = "done"
  /\ w_op' = "touch"
  /\ k \in DOMAIN peers
  /\ QueryNode(w_q') = k

\* the step in which peers_get_for_node(q) runs for peers_cla_for_node(q)
LookupStep(q) ==
  /\ w_pc = "idle"
  /\ w_pc' = "match"
  /\ w_q' = q

\* C1: a sweep that runs at one clock value and one timeout leaves the registry
\* equal to exactly the peers that were Static, or Dynamic with still_valid()
\* true, when it began; each retained peer is unchanged.
C1_SweepExact ==
  (SweepDone /\ stable) =>
    /\ DOMAIN peers =
         {k \in DOMAIN pre :
            \/ pre[k].con_type = "Static"
            \/ /\ pre[k].con_type = "Dynamic"
               /\ still_valid(pre[k], now, peer_timeout, overflow_checks) = "true"}
    /\ \A k \in DOMAIN peers : peers[k] = pre[k]

\* a sweep over two peers has removed one of them and kept the other
C1_Witness ==
  /\ SweepDone
  /\ stable
  /\ DOMAIN pre = Keys
  /\ Cardinality(DOMAIN peers) = 1

\* C2: a Static peer that is in the registry is still in it after every step
\* (sweep steps, clock steps and timeout changes included).
C2_StaticStays ==
  [][\A k \in DOMAIN peers :
       peers[k].con_type = "Static" => k \in DOMAIN peers']_vars

\* a sweep with timeout 0 has passed over a Static peer contacted in the past
C2_Witness ==
  /\ SweepDone
  /\ peer_timeout = 0
  /\ \E k \in DOMAIN pre :
       /\ pre[k].con_type = "Static"
       /\ now > pre[k].last_contact
       /\ k \in DOMAIN peers

\* C3 as stated: still_valid is true for every Static peer of the registry.
C3_StaticAlwaysValid ==
  \A k \in DOMAIN peers :
    peers[k].con_type = "Static" =>
      still_valid(peers[k], now, peer_timeout, overflow_checks) = "true"

\* C3 amended: for a Static peer the retention test of the sweep is true by the
\* type alone and the sweep never computes still_valid for it; still_valid
\* itself ignores the type: with now >= last_contact it is true exactly when
\* now - last_contact < timeout.
C3_StaticKeptByType ==
  /\ \A k \in DOMAIN peers :
       peers[k].con_type = "Static" =>
         /\ keep_unchecked(peers[k])
         /\ ~(s_pc \in {"cfg_wait", "cfg_held"} /\ s_cur = k)
         /\ now >= peers[k].last_contact =>
              ( still_valid(peers[k], now, peer_timeout, overflow_checks) = "true"
                <=> now - peers[k].last_contact < peer_timeout )
  /\ SweepDone =>
       \A k \in DOMAIN pre : pre[k].con_type = "Static" => k \in DOMAIN peers

\* a Static peer with timeout 0 whose still_valid is false has survived a sweep
C3_Witness ==
  /\ SweepDone
  /\ peer_timeout = 0
  /\ \E k \in DOMAIN pre :
       /\ pre[k].con_type = "Static"
       /\ k \in DOMAIN peers
       /\ still_valid(peers[k], now, peer_timeout, overflow_checks) = "false"

\* C4 as stated: for every timeout T >= 0, still_valid of a Dynamic peer is true
\* right after its touch, and false once more than T seconds have elapsed.
C4_TouchValidAnyTimeout ==
  [][ /\ \A k \in Keys :
           (TouchStep(k) /\ peers[k].con_type = "Dynamic") =>
             still_valid(peers'[k], now', peer_timeout', overflow_checks') = "true"
      /\ \A k \in DOMAIN peers :
           (peers[k].con_type = "Dynamic" /\ now - peers[k].last_contact > peer_timeout)
             => still_valid(peers[k], now, peer_timeout, overflow_checks) = "false"
    ]_vars

\* C4 amended: right after touch, still_valid of a Dynamic peer is true when the
\* timeout is at least 1 and false when it is 0; for every timeout, it is false
\* once more than the timeout has elapsed since the last touch.
C4_TouchValidPositiveTimeout ==
  [][ /\ \A k \in Keys :
           (TouchStep(k) /\ peers[k].con_type = "Dynamic") =>
             still_valid(peers'[k], now', peer_timeout', overflow_checks')
               = IF peer_timeout' > 0 THEN "true" ELSE "false"
      /\ \A k \in DOMAIN peers :
           (peers[k].con_type = "Dynamic" /\ now - peers[k].last_contact > peer_timeout)
             => still_valid(peers[k], now, peer_timeout, overflow_checks) = "false"
    ]_vars

\* a Dynamic peer was touched under a positive timeout and more than the timeout
\* has elapsed since
C4_Witness ==
  /\ w_pc = "done"
  /\ w_op = "touch"
  /\ peer_timeout > 0
  /\ \E k \in DOMAIN peers :
       /\ QueryNode(w_q) = k
       /\ peers[k].con_type = "Dynamic"
       /\ now - peers[k].last_contact > peer_timeout
       /\ still_valid(peers[k], now, peer_timeout, overflow_checks) = "false"

C6_NoNestedLocks ==
  \A t \in {"sweep", "caller"} : ~(peersLock = t /\ configLock = t)


\* the lowest index of a binding of p whose transport name is active, as a set
\* (empty when no binding is active)
FirstActive(p) ==
  {i \in 1..Len(p.cla_list) :
     /\ p.cla_list[i][1] \in cla_active
     /\ \A j \in 1..(i - 1) : p.cla_list[j][1] \notin cla_active}

\* C7: peers_cla_for_node returns, for the peer found, the descriptor
\* {peer address, binding port, binding name} of the first binding in declared
\* order whose name is active, and None when no peer was found or no binding of
\* it is active.
C7_FirstActiveBinding ==
  (w_pc = "done" /\ w_op = "resolve") =>
    IF w_snap = None \/ FirstActive(w_snap[1]) = {}
    THEN w_res = None
    ELSE \E i \in FirstActive(w_snap[1]) :
           w_res = Some([remote |-> w_snap[1].addr,
                         port |-> w_snap[1].cla_list[i][2],
                         agent |-> w_snap[1].cla_list[i][1]])

\* a resolution skipped an inactive first binding and returned the second one
C7_Witness ==
  /\ w_pc = "done"
  /\ w_op = "resolve"
  /\ w_snap # None
  /\ w_snap[1].cla_list[1][1] \notin cla_active
  /\ w_res = Some([remote |-> "10.0.0.1", port |-> Some(4556), agent |-> "udp"])

\* C8: a resolution started after a completed sweep found the Dynamic peer of its
\* node past the timeout, and before that node is registered again, returns
\* None; a resolution that finds the peer in the registry, with an active
\* binding, returns a descriptor with that peer's address.
C8_NoneAfterEviction ==
  (w_pc = "done" /\ w_op = "resolve") =>
    /\ w_gone => w_res = None
    /\ (w_snap # None /\ FirstActive(w_snap[1]) # {}) =>
         /\ w_res # None
         /\ w_res[1].remote = w_snap[1].addr
         /\ get_node_name(w_snap[1]) = QueryNode(w_q)

\* a resolution of a node evicted by a sweep, not registered again, returned None
C8_Witness ==
  /\ w_pc = "done"
  /\ w_op = "resolve"
  /\ w_gone
  /\ w_res = None
  /\ QueryNode(w_q) \notin DOMAIN peers

\* C9: peers_get_for_node(q) depends on the node name of q alone: it returns the
\* stored peer of that node, whatever the service part of q, and None exactly
\* when no stored peer has that node name.
C9_LookupByNodeName ==
  [][\A q \in Queries :
       LookupStep(q) =>
         /\ w_snap' = None <=>
              ~\E k \in DOMAIN peers : get_node_name(peers[k]) = QueryNode(q)
         /\ QueryNode(q) \in DOMAIN peers => w_snap' = Some(peers[QueryNode(q)])
    ]_vars

\* a lookup returned a stored peer whose full identifier differs from the query
C9_Witness ==
  /\ w_pc = "match"
  /\ w_snap # None
  /\ w_snap[1].eid # w_q
  /\ get_node_name(w_snap[1]) = QueryNode(w_q)

\* how often string x occurs in the sequence v
Count(v, x) == Cardinality({i \in 1..Len(v) : v[i] = x})

\* C10 as stated: after register(a), eids() holds a's identifier exactly once;
\* after a following unregister(a) it holds it no more; unregister of a never
\* registered identifier changes nothing.
C10_RegisterOnce ==
  core_last # None =>
    /\ core_last[1].op = "register" =>
         Count(eids(endpoints), to_string(core_last[1].eid)) = 1
    /\ ( /\ core_last[1].op = "unregister"
         /\ core_prev # None
         /\ core_prev[1].op = "register"
         /\ core_prev[1].eid = core_last[1].eid )
       => Count(eids(endpoints), to_string(core_last[1].eid)) = 0
    /\ (core_last[1].op = "unregister" /\ core_last[1].eid \notin ever_reg)
       => endpoints = core_last[1].before

\* C10 amended: the same, for an identifier that was not in the collection when
\* register(a) was called; unregister of an identifier that is not in the
\* collection (never registered, or registered and removed) changes nothing.
C10_RegisterOnceWhenAbsent ==
  core_last # None =>
    /\ (core_last[1].op = "register" /\ core_last[1].fresh) =>
         Count(eids(endpoints), to_string(core_last[1].eid)) = 1
    /\ ( /\ core_last[1].op = "unregister"
         /\ core_prev # None
         /\ core_prev[1].op = "register"
         /\ core_prev[1].fresh
         /\ core_prev[1].eid = core_last[1].eid )
       => /\ Count(eids(endpoints), to_string(core_last[1].eid)) = 0
          /\ endpoints = core_prev[1].before
    /\ (core_last[1].op = "unregister" /\ core_last[1].fresh)
       => endpoints = core_last[1].before

\* an agent was registered beside another endpoint and unregistered again
C10_Witness ==
  /\ core_last # None
  /\ core_prev # None
  /\ core_last[1].op = "unregister"
  /\ core_prev[1].op = "register"
  /\ core_prev[1].fresh
  /\ core_prev[1].eid = core_last[1].eid
  /\ Len(endpoints) > 0
  /\ Count(eids(endpoints), to_string(core_last[1].eid)) = 0

\* no two stored endpoints have the same identifier
Unique(eps) ==
  \A i, j \in 1..Len(eps) : agent_eid(eps[i]) = agent_eid(eps[j]) => i = j

\* C11 as stated: in every state reachable by register and unregister calls the
\* endpoint collection holds at most one endpoint per identifier.
C11_UniqueIdentifiers == Unique(endpoints)

\* C11 amended: every unregister call, and every register call for an identifier
\* that is_in_endpoints reports absent, takes a collection with at most one
\* endpoint per identifier to one with at most one endpoint per identifier.
C11_UniqueWhenAbsent ==
  [][ ( /\ Unique(endpoints)
        /\ core_last' # None
        /\ core_last'[1].before = endpoints
        /\ (core_last'[1].op = "unregister" \/ core_last'[1].fresh) )
      => Unique(endpoints') ]_vars

\* two identifiers are stored once each, the second registered after an
\* unregister call removed an endpoint
C11_Witness ==
  /\ Unique(endpoints)
  /\ Len(endpoints) = 2
  /\ core_last # None
  /\ core_last[1].op = "register"
  /\ core_last[1].fresh
  /\ core_prev # None
  /\ core_prev[1].op = "unregister"
  /\ ~core_prev[1].fresh

\* C12: still_valid() never fails when the clock reads earlier than a peer's
\* last contact: the difference is clamped to zero, nothing panics or wraps,
\* and the peer counts as still valid.
C12_BackwardClockValid ==
  /\ s_pc # "panicked"
  /\ ~peersPoisoned
  /\ \A k \in DOMAIN peers :
       now < peers[k].last_contact =>
         still_valid(peers[k], now, peer_timeout, overflow_checks) = "true"

\* C13: a peer's last_contact never decreases: new() sets it to the clock at
\* creation, every touch() leaves a value at least the one before, and a touch()
\* after the clock advanced leaves a strictly greater one.
C13_LastContactMonotone ==
  [][ /\ \A k \in DOMAIN peers' \ DOMAIN peers : peers'[k].last_contact = now
      /\ \A k \in DOMAIN peers :
           TouchStep(k) =>
             /\ peers'[k].last_contact >= peers[k].last_contact
             /\ now > peers[k].last_contact
                  => peers'[k].last_contact > peers[k].last_contact ]_vars

\* C14: a sweep that directly follows a completed sweep, with no touch and no
\* insertion between them and the same clock value and timeout throughout,
\* leaves the registry exactly as the first sweep left it.
C14_SweepIdempotent ==
  (SweepDone /\ stable /\ swept = Some(peer_timeout)) => peers = pre

\* the second of two such sweeps has visited a Dynamic peer, after the first
\* removed the other node's peer
C14_Witness ==
  /\ SweepDone
  /\ stable
  /\ swept = Some(peer_timeout)
  /\ \E k \in DOMAIN peers : peers[k].con_type = "Dynamic"
  /\ \E k \in Keys : gone[k] /\ k \notin DOMAIN peers

\* C15: still_valid() is true exactly when now - last_contact is below the
\* timeout the configuration holds when it is called: of two sweeps at one clock
\* value over untouched peers, the first kept the peers valid under its timeout
\* and the second keeps exactly those valid under the timeout set since.
C15_TimeoutReadAtCall ==
  (SweepDone /\ stable /\ swept # None) =>
    \A k \in DOMAIN pre :
      pre[k].con_type = "Dynamic" =>
        /\ pre[k].last_contact <= now
        /\ now - pre[k].last_contact < swept[1]
        /\ k \in DOMAIN peers <=> now - pre[k].last_contact < peer_timeout

\* the timeout was lowered between two sweeps at one clock value, and the
\* second sweep removed a peer the first had kept
C15_Witness ==
  /\ SweepDone
  /\ stable
  /\ swept # None
  /\ peer_timeout < swept[1]
  /\ DOMAIN peers # DOMAIN pre

\* the indices of the stored endpoints with identifier e
Matching(eps, e) == {i \in 1..Len(eps) : agent_eid(eps[i]) = e}

\* the least element of a non-empty set of indices
Least(S) == CHOOSE i \in S : \A j \in S : i <= j

\* C16: unregister removes only the first stored endpoint with the identifier
\* and leaves every other endpoint in place and in order; register adds at the
\* end, so eids() lists the surviving endpoints in insertion order; no call
\* changes the transports or the routing agent.
C16_UnregisterFrame ==
  /\ cl_list = <<>>
  /\ routing_agent = "epidemic"
  /\ core_last # None =>
       LET b == core_last[1].before
           M == Matching(b, core_last[1].eid)
       IN /\ (core_last[1].op = "unregister" /\ M = {}) => endpoints = b
          /\ (core_last[1].op = "unregister" /\ M # {}) =>
               /\ Len(endpoints) = Len(b) - 1
               /\ \A j \in 1..Len(endpoints) :
                    endpoints[j] = IF j < Least(M) THEN b[j] ELSE b[j + 1]
          /\ core_last[1].op = "register" =>
               /\ SubSeq(endpoints, 1, Len(b)) = b
               /\ eids(endpoints) = Append(eids(b), to_string(core_last[1].eid))

\* unregister was called on a collection holding two different agents with the
\* identifier, with another endpoint between them
C16_Witness ==
  /\ core_last # None
  /\ core_last[1].op = "unregister"
  /\ LET b == core_last[1].before
     IN /\ Len(b) = 3
        /\ Matching(b, core_last[1].eid) = {1, 3}
        /\ b[1] # b[3]
  /\ Len(endpoints) = 2

\* C17: is_in_endpoints, get_endpoint and get_endpoint_mut agree: each finds an
\* endpoint exactly when some stored endpoint's full identifier equals the one
\* asked for, and both get variants return the first such endpoint in insertion
\* order.
C17_LookupsAgree ==
  core_q # None =>
    LET M == Matching(endpoints, core_q[1].eid)
    IN /\ core_q[1].found <=> M # {}
       /\ core_q[1].got = IF M = {} THEN None ELSE Some(endpoints[Least(M)])
       /\ core_q[1].got_mut = core_q[1].got

\* the identifier asked for is stored twice, behind an endpoint that shares
\* only its node
C17_Witness ==
  /\ core_q # None
  /\ Matching(endpoints, core_q[1].eid) = {2, 3}
  /\ endpoints[2] # endpoints[3]
  /\ node_part(agent_eid(endpoints[1])) = node_part(core_q[1].eid)
  /\ core_q[1].got = Some(endpoints[2])

\* C18: only the sweep removes peers, and only the entry whose check failed:
\* no step of a caller (lookup, resolve, touch) changes the set of keys, and no
\* step of the sweep adds a peer or changes a peer that stays.
C18_OnlySweepRemoves ==
  [][ /\ \A k \in DOMAIN peers \ DOMAIN peers' : s_pc = "cfg_held" /\ s_cur = k
      /\ w_pc' # w_pc => DOMAIN peers' = DOMAIN peers
      /\ (s_pc' # s_pc \/ s_todo' # s_todo) =>
           \A k \in DOMAIN peers' : k \in DOMAIN peers /\ peers'[k] = peers[k]
    ]_vars

\* a running sweep has removed one peer and left another, and a resolve call
\* that found a peer has returned
C18_Witness ==
  /\ lastEvict # None
  /\ DOMAIN peers # {}
  /\ w_pc = "done"
  /\ w_op = "resolve"
  /\ w_snap # None

\* C19: peers_cla_for_node works on a snapshot: the peer it matches bindings on
\* is the copy of a registry entry made in the lookup step, and whenever that
\* copy has an active binding the call returns a descriptor with the copy's
\* address and one of the copy's bindings, whatever a concurrent sweep has done
\* to the registry since.
C19_ResolveOnSnapshot ==
  [][ /\ \A q \in Queries :
           (LookupStep(q) /\ w_snap' # None) =>
             \E k \in DOMAIN peers : w_snap' = Some(peers[k])
      /\ (w_pc = "match" /\ w_pc' = "done") =>
           /\ w_snap' = w_snap
           /\ w_res' # None => w_snap # None
           /\ ( /\ w_snap # None
                /\ \E i \in 1..Len(w_snap[1].cla_list) :
                     w_snap[1].cla_list[i][1] \in cla_active )
              => /\ w_res' # None
                 /\ w_res'[1].remote = w_snap[1].addr
                 /\ \E i \in 1..Len(w_snap[1].cla_list) :
                      /\ w_res'[1].agent = w_snap[1].cla_list[i][1]
                      /\ w_res'[1].port = w_snap[1].cla_list[i][2]
    ]_vars

\* a resolution returned a descriptor of a peer that a sweep removed from the
\* registry between the lookup and the return
C19_Witness ==
  /\ w_pc = "done"
  /\ w_op = "resolve"
  /\ w_res # None
  /\ w_snap # None
  /\ w_snap[1].con_type = "Dynamic"
  /\ QueryNode(w_q) \notin DOMAIN peers

====
